---------------------------- MODULE Spec2Model ----------------------------
(***************************************************************************)
(* A model of the user account record of backend/src/user/user.entity.ts:  *)
(* the User entity's credential operations (canLogIn, resetPassword,       *)
(* isRightPassword), the email-confirmation lifecycle that drives its      *)
(* fields, the session check that reads securityOperationPerformedAt and   *)
(* the phone normalisation of the registration input.                      *)
(*                                                                         *)
(* One User object is modelled.  JavaScript values are records tagged by   *)
(* their type, so that undefined, null, strings and Dates stay distinct.   *)
(* Time is counted in seconds.                                             *)
(***************************************************************************)
EXTENDS Integers, Sequences, FiniteSets

VARIABLES
    user,       \* the fields of the User object
    now,        \* the wall clock read by new Date()
    call,       \* the async call suspended at its await, if any
    ret,        \* what the step just taken returned to its caller
    sessions,   \* issuance times of the sessions handed out by login
    lastReset,  \* history: the plaintext of the latest completed resetPassword
    raw,        \* phone normalisation: the raw input
    phone,      \* phone normalisation: normalise(raw)
    phone2      \* phone normalisation: normalise(normalise(raw))

vars == <<user, now, call, ret, sessions, lastReset, raw, phone, phone2>>
phoneVars == <<raw, phone, phone2>>
accountVars == <<user, now, call, ret, sessions, lastReset>>

-----------------------------------------------------------------------------
(* Bounds of the model *)

MaxPeriods == 1
MaxSessions == 1
MaxRawLen == 3

-----------------------------------------------------------------------------
(* Program constants *)

EMAIL_CONFIRMATION_TIMEOUT_SECONDS == 3*24*3600

SALT_ROUNDS == 10

\* bcrypt keys its hash on the first 72 bytes of the data; the rest is ignored
BCRYPT_MAX_KEY_BYTES == 72

\* "Cannot register invalid password - must be at least 6 characters"
MIN_PASSWORD_LENGTH == 6

-----------------------------------------------------------------------------
(* JavaScript values *)

Undefined == [type |-> "undefined"]
Null == [type |-> "null"]
Str(s) == [type |-> "string", value |-> s]
Date(t) == [type |-> "Date", time |-> t]

\* how a promise settles
Resolved(v) == [settled |-> "resolved", value |-> v]
Rejected(e) == [settled |-> "rejected", error |-> e]

\* x == null (loose equality: null and undefined are equal to each other)
LooseNull(x) == x \in {Null, Undefined}

\* a > b on Dates: both sides become numbers; null is 0, undefined is NaN,
\* and every comparison with NaN is false
ToNumber(x) == IF x.type = "Date" THEN x.time ELSE 0
GreaterThan(a, b) ==
    /\ a # Undefined
    /\ b # Undefined
    /\ ToNumber(a) > ToNumber(b)

\* the salts bcrypt draws, the addresses and the confirmation tokens in use
Salts == {"saltA", "saltB"}
Emails == {"a@example.com", "b@example.com"}
Tokens == {"token1", "token2"}

Rep(b, n) == [i \in 1..n |-> b]

\* the passwords callers supply, as byte strings: one below the documented
\* minimum length, one at it, and two that differ only after their first
\* BCRYPT_MAX_KEY_BYTES bytes
Passwords ==
    { Rep(1, MIN_PASSWORD_LENGTH - 1),
      Rep(1, MIN_PASSWORD_LENGTH),
      Rep(1, BCRYPT_MAX_KEY_BYTES) \o <<1>>,
      Rep(1, BCRYPT_MAX_KEY_BYTES) \o <<2>> }

\* the instants the clock is read at: the start, and the last second of each
\* confirmation window counted from the start and the first second after it
Times ==
    {0} \cup {p * EMAIL_CONFIRMATION_TIMEOUT_SECONDS + s : p \in 1..MaxPeriods, s \in 0..1}

-----------------------------------------------------------------------------
(* bcrypt *)

BcryptKey(data) ==
    IF Len(data) > BCRYPT_MAX_KEY_BYTES
    THEN SubSeq(data, 1, BCRYPT_MAX_KEY_BYTES)
    ELSE data

\* bcrypt.hash(data, rounds) with the salt it generated: the hash string
\* carries the cost, the salt and the digest of the key
BcryptHash(data, rounds, salt) ==
    [type |-> "string", rounds |-> rounds, salt |-> salt, digest |-> BcryptKey(data)]

\* bcrypt.compare(data, hash): the promise rejects when an argument is null or
\* undefined; otherwise data is hashed again with the hash's cost and salt
BcryptCompare(data, hash) ==
    IF LooseNull(hash)
    THEN Rejected("data and hash arguments required")
    ELSE Resolved(BcryptHash(data, hash.rounds, hash.salt) = hash)

-----------------------------------------------------------------------------
(* The User entity *)

\* new User(): no field has an initialiser
NewUser ==
    [ confirmedEmail               |-> Undefined,
      pendingEmail                 |-> Undefined,
      emailConfirmationToken       |-> Undefined,
      emailConfirmationRequestedAt |-> Undefined,
      emailConfirmationCompletedAt |-> Undefined,
      securityOperationPerformedAt |-> Undefined,
      passwordHash                 |-> Undefined ]

NoReturn == [op |-> "none"]
NoCall == [op |-> "none"]

\* canLogIn written with !== null
CanLogInStrict(u) == u.emailConfirmationCompletedAt # Null

canLogIn(u) == ~LooseNull(u.emailConfirmationCompletedAt)

CanLogInCall ==
    /\ call = NoCall
    /\ ret' = [op |-> "canLogIn", value |-> canLogIn(user)]
    /\ UNCHANGED <<user, now, call, sessions, lastReset, phoneVars>>

\* resetPassword up to its await: bcrypt.hash is started with newPassword
ResetPasswordCall(newPassword) ==
    /\ call = NoCall
    /\ call' = [op |-> "resetPassword", password |-> newPassword]
    /\ ret' = NoReturn
    /\ UNCHANGED <<user, now, sessions, lastReset, phoneVars>>

\* resetPassword that forgets to force the log out
ResetPasswordNoLogout(c) ==
    /\ c = call
    /\ c.op = "resetPassword"
    /\ \E salt \in Salts :
        user' = [user EXCEPT
                    !.passwordHash = BcryptHash(c.password, SALT_ROUNDS, salt)]
    /\ call' = NoCall
    /\ lastReset' = Str(c.password)
    /\ ret' = [op |-> "resetPassword", password |-> c.password, value |-> Resolved(Undefined)]
    /\ UNCHANGED <<now, sessions, phoneVars>>

\* resetPassword that enforces the minimum length of the registration form
ResetPasswordValidated(c) ==
    /\ c = call
    /\ c.op = "resetPassword"
    /\ IF Len(c.password) < MIN_PASSWORD_LENGTH
       THEN /\ user' = user
            /\ lastReset' = lastReset
            /\ ret' = [op |-> "resetPassword", password |-> c.password,
                       value |-> Rejected("WeakPassword")]
       ELSE /\ \E salt \in Salts :
                user' = [user EXCEPT
                            !.passwordHash = BcryptHash(c.password, SALT_ROUNDS, salt),
                            !.securityOperationPerformedAt = Date(now)]
            /\ lastReset' = Str(c.password)
            /\ ret' = [op |-> "resetPassword", password |-> c.password,
                       value |-> Resolved(Undefined)]
    /\ call' = NoCall
    /\ UNCHANGED <<now, sessions, phoneVars>>

\* resetPassword that also marks the email as confirmed
ResetPasswordAutoConfirm(c) ==
    /\ c = call
    /\ c.op = "resetPassword"
    /\ \E salt \in Salts :
        user' = [user EXCEPT
                    !.passwordHash = BcryptHash(c.password, SALT_ROUNDS, salt),
                    !.securityOperationPerformedAt = Date(now),
                    !.emailConfirmationCompletedAt = Date(now)]
    /\ call' = NoCall
    /\ lastReset' = Str(c.password)
    /\ ret' = [op |-> "resetPassword", password |-> c.password, value |-> Resolved(Undefined)]
    /\ UNCHANGED <<now, sessions, phoneVars>>

\* resetPassword that also drops the outstanding confirmation token
ResetPasswordClearsToken(c) ==
    /\ c = call
    /\ c.op = "resetPassword"
    /\ \E salt \in Salts :
        user' = [user EXCEPT
                    !.passwordHash = BcryptHash(c.password, SALT_ROUNDS, salt),
                    !.securityOperationPerformedAt = Date(now),
                    !.emailConfirmationToken = Null]
    /\ call' = NoCall
    /\ lastReset' = Str(c.password)
    /\ ret' = [op |-> "resetPassword", password |-> c.password, value |-> Resolved(Undefined)]
    /\ UNCHANGED <<now, sessions, phoneVars>>

\* resetPassword after its await, with the hash bcrypt produced
ResetPasswordResume(c) ==
    /\ c = call
    /\ c.op = "resetPassword"
    /\ \E salt \in Salts :
        user' = [user EXCEPT
                    !.passwordHash = BcryptHash(c.password, SALT_ROUNDS, salt),
                    !.securityOperationPerformedAt = Date(now)]
    /\ call' = NoCall
    /\ lastReset' = Str(c.password)
    /\ ret' = [op |-> "resetPassword", password |-> c.password, value |-> Resolved(Undefined)]
    /\ UNCHANGED <<now, sessions, phoneVars>>

\* isRightPassword up to its await: this.passwordHash is read when
\* bcrypt.compare is called
IsRightPasswordCall(password) ==
    /\ call = NoCall
    /\ call' = [op |-> "isRightPassword", password |-> password,
                hash |-> user.passwordHash, given |-> lastReset]
    /\ ret' = NoReturn
    /\ UNCHANGED <<user, now, sessions, lastReset, phoneVars>>

\* isRightPassword after its await: bcrypt's answer is returned, and a
\* rejection of bcrypt's promise rejects isRightPassword's
IsRightPasswordResume(c) ==
    /\ c = call
    /\ c.op = "isRightPassword"
    /\ call' = NoCall
    /\ ret' = [op |-> "isRightPassword", password |-> c.password,
               hashAbsent |-> LooseNull(c.hash), given |-> c.given,
               value |-> BcryptCompare(c.password, c.hash)]
    /\ UNCHANGED <<user, now, sessions, lastReset, phoneVars>>

\* the clock moves forward
Tick ==
    /\ \E t \in Times : t > now /\ now' = t
    /\ ret' = NoReturn
    /\ UNCHANGED <<user, call, sessions, lastReset, phoneVars>>

\* "If securityOperationPerformedAt > session created at, terminate the user
\* session": a session issued at issuedAt is still honoured
SessionValid(u, issuedAt) ==
    ~GreaterThan(u.securityOperationPerformedAt, Date(issuedAt))

-----------------------------------------------------------------------------
(* The account lifecycle around the entity: registration, email            *)
(* confirmation, email change and login                                    *)

Registered(u) == ~LooseNull(u.pendingEmail)

\* a newly generated confirmation token: one the record does not hold
FreshToken(u) == CHOOSE t \in Tokens : Str(t) # u.emailConfirmationToken

\* registration: the record is created with its pending email, a fresh
\* confirmation token and the time of the request; nothing is confirmed
Register(email) ==
    /\ call = NoCall
    /\ ~Registered(user)
    /\ user' = [user EXCEPT
                    !.pendingEmail = Str(email),
                    !.confirmedEmail = Null,
                    !.emailConfirmationToken = Str(FreshToken(user)),
                    !.emailConfirmationRequestedAt = Date(now),
                    !.emailConfirmationCompletedAt = Null]
    /\ ret' = [op |-> "register", value |-> "created"]
    /\ UNCHANGED <<now, call, sessions, lastReset, phoneVars>>

\* the token matches exactly and the confirmation window is still open
ConfirmationAccepted(u, token, t) ==
    /\ u.emailConfirmationToken = Str(token)
    /\ t - u.emailConfirmationRequestedAt.time <= EMAIL_CONFIRMATION_TIMEOUT_SECONDS

\* confirmEmail that never looks at the age of the request
ConfirmEmailNoExpiry(token) ==
    /\ call = NoCall
    /\ Registered(user)
    /\ IF user.emailConfirmationToken = Str(token)
       THEN /\ user' = [user EXCEPT
                            !.confirmedEmail = user.pendingEmail,
                            !.emailConfirmationToken = Null,
                            !.emailConfirmationCompletedAt = Date(now)]
            /\ ret' = [op |-> "confirmEmail", token |-> token, value |-> "success"]
       ELSE /\ user' = user
            /\ ret' = [op |-> "confirmEmail", token |-> token,
                       value |-> "InvalidOrExpiredToken"]
    /\ UNCHANGED <<now, call, sessions, lastReset, phoneVars>>

\* confirmEmail(token)
ConfirmEmail(token) ==
    /\ call = NoCall
    /\ Registered(user)
    /\ IF ConfirmationAccepted(user, token, now)
       THEN /\ user' = [user EXCEPT
                            !.confirmedEmail = user.pendingEmail,
                            !.emailConfirmationToken = Null,
                            !.emailConfirmationCompletedAt = Date(now)]
            /\ ret' = [op |-> "confirmEmail", token |-> token, value |-> "success"]
       ELSE /\ user' = user
            /\ ret' = [op |-> "confirmEmail", token |-> token,
                       value |-> "InvalidOrExpiredToken"]
    /\ UNCHANGED <<now, call, sessions, lastReset, phoneVars>>

\* email change: back to Unconfirmed with a new token and reset timestamps
ChangeEmail(email) ==
    /\ call = NoCall
    /\ Registered(user)
    /\ user' = [user EXCEPT
                    !.pendingEmail = Str(email),
                    !.confirmedEmail = Null,
                    !.emailConfirmationToken = Str(FreshToken(user)),
                    !.emailConfirmationRequestedAt = Date(now),
                    !.emailConfirmationCompletedAt = Null]
    /\ ret' = [op |-> "changeEmail", value |-> "requested"]
    /\ UNCHANGED <<now, call, sessions, lastReset, phoneVars>>

\* login(identifier, password): needs canLogIn() and isRightPassword(password);
\* a session is issued at the current time
Login(password) ==
    /\ call = NoCall
    /\ Registered(user)
    /\ IF canLogIn(user) /\ BcryptCompare(password, user.passwordHash) = Resolved(TRUE)
       THEN /\ Cardinality(sessions \cup {now}) <= MaxSessions
            /\ sessions' = sessions \cup {now}
            /\ ret' = [op |-> "login", value |-> "AccountRecord"]
       ELSE /\ sessions' = sessions
            /\ ret' = [op |-> "login", value |-> "AuthenticationFailed"]
    /\ UNCHANGED <<user, now, call, lastReset, phoneVars>>

-----------------------------------------------------------------------------
(* Registration input: phone normalisation *)

Digits == {"0", "1", "2", "3", "4", "5", "6", "7", "8", "9"}
IsDigit(ch) == ch \in Digits
IsDigitOrPlus(ch) == ch \in Digits \cup {"+"}

\* the characters raw inputs are built from
PhoneChars == {"+", "1", "5", " ", "-", "(", ")"}

\* "+1 (555) 123-1234" and "+15551231234"
ExampleRaw ==
    <<"+", "1", " ", "(", "5", "5", "5", ")", " ", "1", "2", "3", "-", "1", "2", "3", "4">>
ExampleNormalized ==
    <<"+", "1", "5", "5", "5", "1", "2", "3", "1", "2", "3", "4">>

RECURSIVE SeqsUpTo(_)
SeqsUpTo(n) ==
    IF n = 0
    THEN {<<>>}
    ELSE LET shorter == SeqsUpTo(n - 1)
         IN  shorter \cup {Append(s, ch) : s \in shorter, ch \in PhoneChars}

RawPhones == SeqsUpTo(MaxRawLen) \cup {ExampleRaw}

\* normalisation that keeps every "+" it meets
NormalizePhoneKeepsPlus(s) == SelectSeq(s, IsDigitOrPlus)

\* keep the "+" only if it is the first character, drop every other
\* character that is not a digit
NormalizePhone(s) ==
    (IF s # <<>> /\ s[1] = "+" THEN <<"+">> ELSE <<>>) \o SelectSeq(s, IsDigit)

\* an optional leading "+" followed by digits only
CanonicalPhone(s) ==
    \A i \in 1..Len(s) : IsDigit(s[i]) \/ (i = 1 /\ s[i] = "+")

\* the validator normalises the raw phone number
NormalizeInput ==
    /\ phone = Null
    /\ phone' = Str(NormalizePhone(raw))
    /\ UNCHANGED <<raw, phone2, accountVars>>

\* the stored number goes through the validator once more
NormalizeAgain ==
    /\ phone # Null
    /\ phone2 = Null
    /\ phone2' = Str(NormalizePhone(phone.value))
    /\ UNCHANGED <<raw, phone, accountVars>>

InitPhone ==
    /\ user = NewUser
    /\ now = 0
    /\ call = NoCall
    /\ ret = NoReturn
    /\ sessions = {}
    /\ lastReset = Null
    /\ raw \in RawPhones
    /\ phone = Null
    /\ phone2 = Null

NextPhone ==
    \/ NormalizeInput
    \/ NormalizeAgain

SpecPhone == InitPhone /\ [][NextPhone]_vars

-----------------------------------------------------------------------------

Init ==
    /\ user = NewUser
    /\ now = 0
    /\ call = NoCall
    /\ ret = NoReturn
    /\ sessions = {}
    /\ lastReset = Null
    /\ raw = <<>>
    /\ phone = Null
    /\ phone2 = Null

Next ==
    \/ Tick
    \/ CanLogInCall
    \/ \E p \in Passwords : ResetPasswordCall(p)
    \/ ResetPasswordResume(call)
    \/ \E p \in Passwords : IsRightPasswordCall(p)
    \/ IsRightPasswordResume(call)
    \/ \E e \in Emails : Register(e)
    \/ \E t \in Tokens : ConfirmEmail(t)
    \/ \E e \in Emails : ChangeEmail(e)
    \/ \E p \in Passwords : Login(p)

Spec == Init /\ [][Next]_vars

-----------------------------------------------------------------------------
(* Properties *)

Timeout == EMAIL_CONFIRMATION_TIMEOUT_SECONDS

\* the step completes a resetPassword call
ResetCompletes == call.op = "resetPassword" /\ call' = NoCall

\* C1: whenever canLogIn() returns, it returns true exactly when
\* emailConfirmationCompletedAt is set (neither null nor undefined), and the
\* call leaves every field of the record as it was.
C1_CanLogInIffConfirmationCompleted ==
    [][ret'.op = "canLogIn" =>
            /\ ret'.value = (user.emailConfirmationCompletedAt \notin {Null, Undefined})
            /\ user' = user]_vars

\* canLogIn() has answered true on a confirmed record
C1_Witness ==
    /\ ret.op = "canLogIn"
    /\ ret.value = TRUE
    /\ user.emailConfirmationCompletedAt.type = "Date"

\* C2: isRightPassword(p), called after a resetPassword has completed,
\* resolves to true exactly when p is the password given to the most recent
\* completed resetPassword (so the new password is right and the old, distinct
\* one is wrong).
C2_RightExactlyForLatestPassword ==
    (ret.op = "isRightPassword" /\ ret.given # Null) =>
        ret.value = Resolved(ret.password = ret.given.value)

\* C3: a completing resetPassword sets securityOperationPerformedAt to the
\* current time, after which every session issued earlier than it fails the
\* session check; and no step moves securityOperationPerformedAt backwards.
C3_ResetInvalidatesEarlierSessions ==
    [][ /\ ResetCompletes =>
            /\ user'.securityOperationPerformedAt = Date(now')
            /\ \A s \in sessions' :
                  s < user'.securityOperationPerformedAt.time => ~SessionValid(user', s)
        /\ \/ user.securityOperationPerformedAt = Undefined
           \/ /\ user'.securityOperationPerformedAt.type = "Date"
              /\ user'.securityOperationPerformedAt.time
                    >= user.securityOperationPerformedAt.time ]_vars

\* a resetPassword has completed while a session issued earlier exists, and
\* that session is no longer valid
C3_Witness ==
    /\ ret.op = "resetPassword"
    /\ \E s \in sessions :
          /\ s < user.securityOperationPerformedAt.time
          /\ ~SessionValid(user, s)

C5_AbsentHashAnswersFalse ==
    (ret.op = "isRightPassword" /\ ret.hashAbsent) => ret.value = Resolved(FALSE)

\* C6: canLogIn() is false right after registration, and a step makes it true
\* only if it is a confirmation that supplies the record's token no later than
\* EMAIL_CONFIRMATION_TIMEOUT_SECONDS after emailConfirmationRequestedAt.
C6_LoginOnlyAfterTimelyConfirmation ==
    [][ /\ ret'.op = "register" => ~canLogIn(user')
        /\ (~canLogIn(user) /\ canLogIn(user')) =>
              /\ ret'.op = "confirmEmail"
              /\ user.emailConfirmationToken = Str(ret'.token)
              /\ now - user.emailConfirmationRequestedAt.time <= Timeout ]_vars

\* a confirmation in the last second of the window has made canLogIn() true
C6_Witness ==
    /\ ret.op = "confirmEmail"
    /\ ret.value = "success"
    /\ canLogIn(user)
    /\ now - user.emailConfirmationRequestedAt.time = Timeout

\* C7: a confirmation whose token is not the record's, or that comes more than
\* EMAIL_CONFIRMATION_TIMEOUT_SECONDS after emailConfirmationRequestedAt, fails
\* with InvalidOrExpiredToken and leaves every field of the record unchanged.
C7_FailedConfirmationChangesNothing ==
    [][(/\ ret'.op = "confirmEmail"
        /\ \/ user.emailConfirmationToken # Str(ret'.token)
           \/ now - user.emailConfirmationRequestedAt.time > Timeout) =>
            /\ ret'.value = "InvalidOrExpiredToken"
            /\ user' = user]_vars

\* the right token has been refused because the window had closed
C7_Witness ==
    /\ ret.op = "confirmEmail"
    /\ ret.value = "InvalidOrExpiredToken"
    /\ user.emailConfirmationToken = Str(ret.token)
    /\ now - user.emailConfirmationRequestedAt.time > Timeout

\* C8: confirmedEmail is set exactly when emailConfirmationCompletedAt is set.
C8_ConfirmedEmailIffCompletedAt ==
    LooseNull(user.confirmedEmail) <=> LooseNull(user.emailConfirmationCompletedAt)

\* a resetPassword has completed on a record whose email is confirmed
C8_Witness ==
    /\ ret.op = "resetPassword"
    /\ ~LooseNull(user.confirmedEmail)
    /\ ~LooseNull(user.emailConfirmationCompletedAt)

\* C9: the normalised phone number is an optional leading "+" followed by
\* digits only, normalising it again returns it unchanged, and
\* "+1 (555) 123-1234" normalises to "+15551231234".
C9_PhoneNormalizationCanonicalAndIdempotent ==
    /\ phone # Null => CanonicalPhone(phone.value)
    /\ phone2 # Null => phone2 = phone
    /\ (phone # Null /\ raw = ExampleRaw) => phone.value = ExampleNormalized

\* the example number has been normalised twice
C9_Witness ==
    /\ raw = ExampleRaw
    /\ phone # Null
    /\ phone2 # Null

\* C10: from its call to its completion resetPassword changes no field other
\* than passwordHash and securityOperationPerformedAt, so canLogIn() answers
\* the same before and after.
C10_ResetPasswordFrame ==
    [][(call.op = "resetPassword" \/ call'.op = "resetPassword") =>
            /\ user'.confirmedEmail = user.confirmedEmail
            /\ user'.pendingEmail = user.pendingEmail
            /\ user'.emailConfirmationToken = user.emailConfirmationToken
            /\ user'.emailConfirmationRequestedAt = user.emailConfirmationRequestedAt
            /\ user'.emailConfirmationCompletedAt = user.emailConfirmationCompletedAt
            /\ canLogIn(user') = canLogIn(user)]_vars

\* a resetPassword has completed on a registered record that still holds its
\* confirmation token
C10_Witness ==
    /\ ret.op = "resetPassword"
    /\ user.emailConfirmationToken.type = "string"
    /\ user.passwordHash # Undefined

=============================================================================
